---- MODULE Spec2Model ----
(***************************************************************************)
(* scaleMatrix of geokit/_core/util.py: a 2-D array is scaled up by block  *)
(* replication or scaled down by block averaging, with optional zero       *)
(* padding and edge correction.  The call is modelled statement by         *)
(* statement over a heap of array objects, so that aliasing (which object  *)
(* is returned, which object is written) is part of the state.             *)
(***************************************************************************)
EXTENDS Integers, Sequences, FiniteSets, TLC

(***************************************************************************)
(* Bounds of the model.                                                    *)
(***************************************************************************)
MaxDim == 4
MaxScale == 3
MaxVal == 2
MaxDimRT == 2

(***************************************************************************)
(* Exact rationals <<n, d>>, d > 0, in lowest terms.  They stand for the   *)
(* cell values of integer arrays and, when arith = "exact", for the cells  *)
(* of float arrays read as real numbers.                                   *)
(***************************************************************************)
Abs(n) == IF n < 0 THEN -n ELSE n

RECURSIVE Gcd(_, _)
Gcd(a, b) == IF b = 0 THEN a ELSE Gcd(b, a % b)

QNorm(n, d) ==
  LET g == Gcd(Abs(n), Abs(d))
      s == IF d < 0 THEN -1 ELSE 1
  IN  <<(s * n) \div g, (s * d) \div g>>

QInt(n) == <<n, 1>>
QAdd(a, b) == QNorm(a[1] * b[2] + b[1] * a[2], a[2] * b[2])
QMul(a, b) == QNorm(a[1] * b[1], a[2] * b[2])
QDiv(a, b) == QNorm(a[1] * b[2], a[2] * b[1])

(***************************************************************************)
(* Natural numbers of any size as bit sequences, least significant bit     *)
(* first, without high zeros (zero is <<>>).                               *)
(***************************************************************************)
RECURSIVE IntBits(_)
IntBits(n) == IF n = 0 THEN <<>> ELSE <<n % 2>> \o IntBits(n \div 2)

BNorm(b) ==
  LET ones == {i \in 1..Len(b) : b[i] = 1}
  IN  IF ones = {} THEN <<>>
      ELSE SubSeq(b, 1, CHOOSE i \in ones : \A j \in ones : j <= i)

BPad(a, len) == a \o [i \in 1..(len - Len(a)) |-> 0]

\* <<sum bits, carry out>> of two bit sequences of one length and a carry
\* in; the sequences are halved, so the recursion is Log2(length) deep
RECURSIVE BAddC(_, _, _)
BAddC(a, b, c) ==
  IF c = 0 /\ Len(a) = 0 THEN <<(<<>>), 0>>
  ELSE IF Len(a) = 0 THEN <<(<<>>), c>>
  ELSE IF Len(a) = 1
  THEN <<(<<(a[1] + b[1] + c) % 2>>), (a[1] + b[1] + c) \div 2>>
  ELSE LET h  == Len(a) \div 2
           lo == BAddC(SubSeq(a, 1, h), SubSeq(b, 1, h), c)
           hi == BAddC(SubSeq(a, h + 1, Len(a)), SubSeq(b, h + 1, Len(a)), lo[2])
       IN  <<lo[1] \o hi[1], hi[2]>>

BAdd(a, b) ==
  LET len == IF Len(a) < Len(b) THEN Len(b) ELSE Len(a)
      r   == BAddC(BPad(a, len), BPad(b, len), 0)
  IN  IF r[2] = 1 THEN r[1] \o <<1>> ELSE r[1]

BShl(a, k) == IF a = <<>> THEN <<>> ELSE [i \in 1..k |-> 0] \o a

\* <<quotient bits, remainder>> of (r * 2^Len(a) + a) divided by n, for a
\* remainder r < n carried down from the higher bits
RECURSIVE BDivRem(_, _, _)
BDivRem(a, n, r) ==
  IF r = 0 /\ Len(a) = 0 THEN <<(<<>>), 0>>
  ELSE IF Len(a) = 0 THEN <<(<<>>), r>>
  ELSE IF Len(a) = 1
  THEN <<(<<(2 * r + a[1]) \div n>>), (2 * r + a[1]) % n>>
  ELSE LET h  == Len(a) \div 2
           hi == BDivRem(SubSeq(a, h + 1, Len(a)), n, r)
           lo == BDivRem(SubSeq(a, 1, h), n, hi[2])
       IN  <<lo[1] \o hi[1], lo[2]>>

(***************************************************************************)
(* IEEE-754 binary64 values >= 0 as <<m, e>>: m a bit sequence of exactly  *)
(* Precision bits (top bit 1), the value m * 2^e; zero is <<(<<>>), 0>>.   *)
(* Exponent range (overflow, subnormals) is not modelled.                  *)
(***************************************************************************)
Precision == 53

FZero == <<(<<>>), 0>>

\* round-to-nearest-even of n * 2^e (+ a nonzero tail below it when sticky)
FRound(n, e, sticky) ==
  IF n = <<>> THEN FZero
  ELSE IF Len(n) <= Precision
  THEN <<BShl(n, Precision - Len(n)), e - (Precision - Len(n))>>
  ELSE LET d     == Len(n) - Precision
           kept  == SubSeq(n, d + 1, Len(n))
           guard == n[d]
           st    == sticky \/ \E i \in 1..(d - 1) : n[i] = 1
           up    == guard = 1 /\ (st \/ kept[1] = 1)
           r     == IF up THEN BAdd(kept, <<1>>) ELSE kept
       IN  IF Len(r) > Precision THEN <<Tail(r), e + d + 1>> ELSE <<r, e + d>>

FFromInt(n) == FRound(IntBits(n), 0, FALSE)

FAdd(a, b) ==
  IF a[1] = <<>> THEN b
  ELSE IF b[1] = <<>> THEN a
  ELSE LET e == IF a[2] < b[2] THEN a[2] ELSE b[2]
       IN  FRound(BAdd(BShl(a[1], a[2] - e), BShl(b[1], b[2] - e)), e, FALSE)

\* the product of two bit sequences, halving b
RECURSIVE BMul(_, _)
BMul(a, b) ==
  IF Len(b) = 0 \/ a = <<>> THEN <<>>
  ELSE IF Len(b) = 1 THEN (IF b[1] = 1 THEN a ELSE <<>>)
  ELSE LET h == Len(b) \div 2
       IN  BAdd(BMul(a, SubSeq(b, 1, h)),
                BShl(BNorm(BMul(a, SubSeq(b, h + 1, Len(b)))), h))

FMul(a, b) ==
  IF a[1] = <<>> \/ b[1] = <<>> THEN FZero
  ELSE FRound(BNorm(BMul(a[1], b[1])), a[2] + b[2], FALSE)

\* a / n for an integer n > 0, correctly rounded
FDivInt(a, n) ==
  IF a[1] = <<>> THEN FZero
  ELSE LET qr == BDivRem(BShl(a[1], n), n, 0)
       IN  FRound(BNorm(qr[1]), a[2] - n, qr[2] # 0)

(***************************************************************************)
(* Cell arithmetic.  An "int" array holds integers n as <<n, 1>>.  The     *)
(* cells of a "float" array are exact rationals when arith = "exact" (the  *)
(* run read in real arithmetic) and binary64 values when                   *)
(* arith = "binary64".  Integer cells are taken to be >= 0 and below 2^53, *)
(* where their conversion to float is exact.                               *)
(***************************************************************************)
Zero(ar, dtype) == IF dtype = "float" /\ ar = "binary64" THEN FZero ELSE QInt(0)

AsFloat(ar, dtype, v) ==
  IF dtype = "int" /\ ar = "binary64" THEN FFromInt(v[1]) ELSE v

Add(ar, a, b) == IF ar = "binary64" THEN FAdd(a, b) ELSE QAdd(a, b)

DivInt(ar, a, n) == IF ar = "binary64" THEN FDivInt(a, n) ELSE QDiv(a, QInt(n))

Mul(ar, a, b) == IF ar = "binary64" THEN FMul(a, b) ELSE QMul(a, b)

\* the Python float n / d of two ints, d > 0
IntDiv(ar, n, d) == DivInt(ar, AsFloat(ar, "int", QInt(n)), d)

(***************************************************************************)
(* numpy arrays: [dtype, data], data a sequence of rows of one length.     *)
(* Indices are 1-based here, 0-based in the source.                        *)
(***************************************************************************)
Rows(a) == Len(a.data)
Cols(a) == Len(a.data[1])

\* np.zeros((h, w), dtype)
Zeros(ar, h, w, dtype) ==
  [dtype |-> dtype, data |-> [r \in 1..h |-> [c \in 1..w |-> Zero(ar, dtype)]]]

\* the number of indices o, o+s, o+2s, ... below n
SliceLen(n, o, s) == (n - o + s - 1) \div s

\* a[y0::ys, x0::xs]
Slice(a, y0, ys, x0, xs) ==
  [i \in 1..SliceLen(Rows(a), y0, ys) |->
    [j \in 1..SliceLen(Cols(a), x0, xs) |->
      a.data[y0 + (i - 1) * ys + 1][x0 + (j - 1) * xs + 1]]]

InSlice(r, c, y0, ys, x0, xs) ==
  /\ r - 1 >= y0 /\ (r - 1 - y0) % ys = 0
  /\ c - 1 >= x0 /\ (c - 1 - x0) % xs = 0

\* out[y0::ys, x0::xs] = src, in place (src has the slice's shape)
SetSlice(o, y0, ys, x0, xs, src) ==
  [o EXCEPT !.data =
    [r \in 1..Rows(o) |-> [c \in 1..Cols(o) |->
      IF InSlice(r, c, y0, ys, x0, xs)
      THEN src.data[(r - 1 - y0) \div ys + 1][(c - 1 - x0) \div xs + 1]
      ELSE o.data[r][c]]]]

\* mutant of AddSlice: the slice is assigned, not added
AddSliceAssigned(ar, o, src, y0, ys, x0, xs) ==
  LET s == Slice(src, y0, ys, x0, xs)
  IN  [o EXCEPT !.data =
        [r \in 1..Rows(o) |-> [c \in 1..Cols(o) |-> AsFloat(ar, src.dtype, s[r][c])]]]

\* out += src[y0::ys, x0::xs], in place; out is a float array of the slice's shape
AddSlice(ar, o, src, y0, ys, x0, xs) ==
  LET s == Slice(src, y0, ys, x0, xs)
  IN  [o EXCEPT !.data =
        [r \in 1..Rows(o) |-> [c \in 1..Cols(o) |->
          Add(ar, o.data[r][c], AsFloat(ar, src.dtype, s[r][c]))]]]

\* out / n: a new float array
DivArray(ar, o, n) ==
  [dtype |-> "float",
   data  |-> [r \in 1..Rows(o) |-> [c \in 1..Cols(o) |-> DivInt(ar, o.data[r][c], n)]]]

\* np.concatenate((a, np.zeros((k, a.shape[1]))), 0): a new float array
ConcatRows(ar, a, k) ==
  [dtype |-> "float",
   data  |-> [r \in 1..(Rows(a) + k) |-> [c \in 1..Cols(a) |->
               IF r <= Rows(a) THEN AsFloat(ar, a.dtype, a.data[r][c])
               ELSE Zero(ar, "float")]]]

\* np.concatenate((a, np.zeros((a.shape[0], k))), 1): a new float array
ConcatCols(ar, a, k) ==
  [dtype |-> "float",
   data  |-> [r \in 1..Rows(a) |-> [c \in 1..(Cols(a) + k) |->
               IF c <= Cols(a) THEN AsFloat(ar, a.dtype, a.data[r][c])
               ELSE Zero(ar, "float")]]]

\* o[rows, cols] *= f, in place, for the cells <<r, c>> of the selection
ScaleCells(ar, o, cells, f) ==
  [o EXCEPT !.data =
    [r \in 1..Rows(o) |-> [c \in 1..Cols(o) |->
      IF <<r, c>> \in cells THEN Mul(ar, o.data[r][c], f) ELSE o.data[r][c]]]]

\* the cells of o[:-1, -1], o[-1, :-1] and o[-1, -1]
LastColumnAbove(o) == {<<r, Cols(o)>> : r \in 1..(Rows(o) - 1)}
LastRowLeft(o) == {<<Rows(o), c>> : c \in 1..(Cols(o) - 1)}
Corner(o) == {<<Rows(o), Cols(o)>>}

(***************************************************************************)
(* Python numbers as passed for the scale: an int v, or a float that is    *)
(* not an int, v halves (v = 3 is 1.5).  A local that is not yet bound     *)
(* has kind "unbound"; an unbound reference is 0 and an unbound pad is -1. *)
(***************************************************************************)
PyInt(k) == [kind |-> "int", v |-> k]
PyFloat(halves) == [kind |-> "float", v |-> halves]
Unbound == [kind |-> "unbound", v |-> 0]

IsInt(n) == n.kind = "int"

VARIABLES
  arith,   \* how float cells are read: "exact" or "binary64"
  heap,    \* the array objects, by reference 1..Len(heap)
  arg,     \* the caller's array, the object passed as mat
  given,   \* the caller's grid as it was when the caller first passed it
  calls,   \* the calls the caller has made
  mat,     \* parameter mat (a reference; rebound by the padding)
  scale,   \* parameter scale: <<"pair", y, x>> or <<"scalar", s>>
  strict,  \* parameter strict
  yScale, xScale, yPad, xPad,  \* locals
  out,     \* local out (a reference)
  yo, xo,  \* loop variables
  pc,      \* the statement to execute next
  result,  \* the reference returned
  error    \* the exception raised

vars == <<arith, heap, arg, given, calls, mat, scale, strict, yScale, xScale, yPad,
          xPad, out, yo, xo, pc, result, error>>

params == <<arith, arg, given, calls, scale, strict>>

\* the loop header pair "for yo in range(ys): for xo in range(xs)": the
\* next (yo, xo), or pc moves on when the ranges are exhausted
LoopStep(ys, xs, after) ==
  IF xo + 1 < xs THEN yo' = yo /\ xo' = xo + 1 /\ pc' = pc
  ELSE IF yo + 1 < ys THEN yo' = yo + 1 /\ xo' = 0 /\ pc' = pc
  ELSE yo' = yo /\ xo' = xo /\ pc' = after

\* lines 99-103
Unpack ==
  /\ pc = "unpack"
  /\ IF scale[1] = "pair"
     THEN yScale' = scale[2] /\ xScale' = scale[3]
     ELSE yScale' = scale[2] /\ xScale' = scale[2]
  /\ pc' = "check"
  /\ UNCHANGED <<params, heap, mat, yPad, xPad, out, yo, xo, result, error>>

\* lines 105-107
CheckInts ==
  /\ pc = "check"
  /\ IF ~(IsInt(xScale) /\ IsInt(yScale))
     THEN pc' = "raised" /\ error' = "ValueError: scale must be integer types"
     ELSE pc' = "branch" /\ error' = error
  /\ UNCHANGED <<params, heap, mat, yScale, xScale, yPad, xPad, out, yo, xo, result>>

\* mutant of NoOp: out is returned
NoOpReturnsOut ==
  /\ pc = "branch"
  /\ xScale.v = 0 /\ yScale.v = 0
  /\ result' = out
  /\ pc' = "done"
  /\ UNCHANGED <<params, heap, mat, yScale, xScale, yPad, xPad, out, yo, xo, error>>

\* mutant of NoOp: one zero component is enough
NoOpEitherZero ==
  /\ pc = "branch"
  /\ (xScale.v = 0 \/ yScale.v = 0)
  /\ result' = mat
  /\ pc' = "done"
  /\ UNCHANGED <<params, heap, mat, yScale, xScale, yPad, xPad, out, yo, xo, error>>

\* line 109
NoOp ==
  /\ pc = "branch"
  /\ xScale.v = 0 /\ yScale.v = 0
  /\ result' = mat
  /\ pc' = "done"
  /\ UNCHANGED <<params, heap, mat, yScale, xScale, yPad, xPad, out, yo, xo, error>>

\* lines 110-111
UpAlloc ==
  /\ pc = "branch"
  /\ ~(xScale.v = 0 /\ yScale.v = 0)
  /\ xScale.v > 0 /\ yScale.v > 0
  /\ heap' = Append(heap, Zeros(arith, Rows(heap[mat]) * yScale.v,
                                Cols(heap[mat]) * xScale.v, heap[mat].dtype))
  /\ out' = Len(heap) + 1
  /\ yo' = 0 /\ xo' = 0
  /\ pc' = "up_loop"
  /\ UNCHANGED <<params, mat, yScale, xScale, yPad, xPad, result, error>>

\* mutant of UpAssigned: the column offset xo is dropped
UpAssignedNoColumnOffset(o, m) == SetSlice(o, yo, yScale.v, 0, xScale.v, m)

\* the array out after line 114
UpAssigned(o, m) == SetSlice(o, yo, yScale.v, xo, xScale.v, m)

\* lines 112-114, one iteration
UpAssign ==
  /\ pc = "up_loop"
  /\ heap' = [heap EXCEPT ![out] = UpAssigned(@, heap[mat])]
  /\ LoopStep(yScale.v, xScale.v, "return")
  /\ UNCHANGED <<params, mat, yScale, xScale, yPad, xPad, out, result, error>>

\* lines 116-118
DownNegate ==
  /\ pc = "branch"
  /\ ~(xScale.v = 0 /\ yScale.v = 0)
  /\ ~(xScale.v > 0 /\ yScale.v > 0)
  /\ xScale.v < 0 /\ yScale.v < 0
  /\ xScale' = PyInt(-1 * xScale.v)
  /\ yScale' = PyInt(-1 * yScale.v)
  /\ pc' = "down_strict"
  /\ UNCHANGED <<params, heap, mat, yPad, xPad, out, yo, xo, result, error>>

\* mutant of Divisible: one divisible axis is enough
DivisibleEither(a, ys, xs) == Rows(a) % ys = 0 \/ Cols(a) % xs = 0

\* line 121
Divisible(a, ys, xs) == Rows(a) % ys = 0 /\ Cols(a) % xs = 0

\* lines 120-124
DownStrict ==
  /\ pc = "down_strict"
  /\ strict
  /\ IF ~Divisible(heap[mat], yScale.v, xScale.v)
     THEN /\ pc' = "raised"
          /\ error' = "GeoKitError: Matrix can only be scaled down by a factor of it's dimensions"
          /\ UNCHANGED <<yPad, xPad>>
     ELSE /\ yPad' = 0 /\ xPad' = 0
          /\ pc' = "down_alloc"
          /\ error' = error
  /\ UNCHANGED <<params, heap, mat, yScale, xScale, out, yo, xo, result>>

\* mutant of PadAmount: lines 129-130 are missing
PadAmountNoReset(n, s) == s - (n % s)

\* lines 126-127 and 129-130, for one axis of size n
PadAmount(n, s) ==
  LET p == s - (n % s)
  IN  IF p = s THEN 0 ELSE p

\* mutant of Padded: the caller's array is resized in place
PaddedInPlace(ar, h, m, yp, xp) ==
  LET a1 == IF yp > 0 THEN ConcatRows(ar, h[m], yp) ELSE h[m]
      a2 == IF xp > 0 THEN ConcatCols(ar, a1, xp) ELSE a1
  IN  <<[h EXCEPT ![m] = a2], m>>

\* lines 133-134: <<the heap, mat>> after the padding
Padded(ar, h, m, yp, xp) ==
  LET h1 == IF yp > 0 THEN Append(h, ConcatRows(ar, h[m], yp)) ELSE h
      m1 == IF yp > 0 THEN Len(h1) ELSE m
      h2 == IF xp > 0 THEN Append(h1, ConcatCols(ar, h1[m1], xp)) ELSE h1
      m2 == IF xp > 0 THEN Len(h2) ELSE m1
  IN  <<h2, m2>>

\* lines 125-134
DownPad ==
  /\ pc = "down_strict"
  /\ ~strict
  /\ yPad' = PadAmount(Rows(heap[mat]), yScale.v)
  /\ xPad' = PadAmount(Cols(heap[mat]), xScale.v)
  /\ heap' = Padded(arith, heap, mat, yPad', xPad')[1]
  /\ mat' = Padded(arith, heap, mat, yPad', xPad')[2]
  /\ pc' = "down_alloc"
  /\ UNCHANGED <<params, yScale, xScale, out, yo, xo, result, error>>

\* line 136
DownAlloc ==
  /\ pc = "down_alloc"
  /\ heap' = Append(heap, Zeros(arith, Rows(heap[mat]) \div yScale.v,
                                Cols(heap[mat]) \div xScale.v, "float"))
  /\ out' = Len(heap) + 1
  /\ yo' = 0 /\ xo' = 0
  /\ pc' = "down_loop"
  /\ UNCHANGED <<params, mat, yScale, xScale, yPad, xPad, result, error>>

\* lines 137-139, one iteration
DownAccum ==
  /\ pc = "down_loop"
  /\ heap' = [heap EXCEPT ![out] = AddSlice(arith, @, heap[mat], yo, yScale.v, xo, xScale.v)]
  /\ LoopStep(yScale.v, xScale.v, "down_div")
  /\ UNCHANGED <<params, mat, yScale, xScale, yPad, xPad, out, result, error>>

\* mutant of Averaged: the divisor is xScale*xScale
AveragedBySquare(ar, o, ys, xs) == DivArray(ar, o, xs * xs)

\* the array bound to out by line 140
Averaged(ar, o, ys, xs) == DivArray(ar, o, xs * ys)

\* line 140
DownDivide ==
  /\ pc = "down_div"
  /\ heap' = Append(heap, Averaged(arith, heap[out], yScale.v, xScale.v))
  /\ out' = Len(heap) + 1
  /\ pc' = "down_fix"
  /\ UNCHANGED <<params, mat, yScale, xScale, yPad, xPad, yo, xo, result, error>>

\* mutant of CornerFactor: the corner is corrected for the rows only
CornerFactorRowsOnly(ar, ys, xs, yp, xp) == IntDiv(ar, ys, ys - yp)

\* line 145: yScale*xScale/(yScale-yPad)/(xScale-xPad)
CornerFactor(ar, ys, xs, yp, xp) == DivInt(ar, IntDiv(ar, ys * xs, ys - yp), xs - xp)

\* lines 143-145: the array out after the three in-place corrections
Corrected(ar, o, ys, xs, yp, xp) ==
  LET o1 == IF yp > 0
            THEN ScaleCells(ar, o, LastColumnAbove(o), IntDiv(ar, ys, ys - yp))
            ELSE o
      o2 == IF xp > 0
            THEN ScaleCells(ar, o1, LastRowLeft(o), IntDiv(ar, xs, xs - xp))
            ELSE o1
  IN  IF yp > 0
      THEN ScaleCells(ar, o2, Corner(o), CornerFactor(ar, ys, xs, yp, xp))
      ELSE o2

\* lines 142-145
DownCorrect ==
  /\ pc = "down_fix"
  /\ heap' = [heap EXCEPT ![out] = Corrected(arith, @, yScale.v, xScale.v, yPad, xPad)]
  /\ pc' = "return"
  /\ UNCHANGED <<params, mat, yScale, xScale, yPad, xPad, out, yo, xo, result, error>>

\* lines 147-148
MixedRaise ==
  /\ pc = "branch"
  /\ ~(xScale.v = 0 /\ yScale.v = 0)
  /\ ~(xScale.v > 0 /\ yScale.v > 0)
  /\ ~(xScale.v < 0 /\ yScale.v < 0)
  /\ pc' = "raised"
  /\ error' = "GeoKitError: Dimensions must be scaled in the same direction"
  /\ UNCHANGED <<params, heap, mat, yScale, xScale, yPad, xPad, out, yo, xo, result>>

\* line 150
Return ==
  /\ pc = "return"
  /\ result' = out
  /\ pc' = "done"
  /\ UNCHANGED <<params, heap, mat, yScale, xScale, yPad, xPad, out, yo, xo, error>>

(***************************************************************************)
(* The calls checked.  An input grid is an int array: an impulse (one cell *)
(* MaxVal, the others 0) or a ramp (the cells numbered 1, 2, ... row by    *)
(* row), or the docstring's 4x4 example.  A scale is a pair or a single number, its components the ints    *)
(* -MaxScale..MaxScale and the float 1.5.                                  *)
(***************************************************************************)
Impulse(h, w, p, q) ==
  [dtype |-> "int",
   data  |-> [r \in 1..h |-> [c \in 1..w |->
               QInt(IF r = p /\ c = q THEN MaxVal ELSE 0)]]]

Ramp(h, w) ==
  [dtype |-> "int",
   data  |-> [r \in 1..h |-> [c \in 1..w |-> QInt((r - 1) * w + c)]]]

Grids(h, w) == {Impulse(h, w, p, q) : p \in 1..h, q \in 1..w} \cup {Ramp(h, w)}

\* the 4x4 matrix of the docstring's second and third examples (lines 79-88)
DocExample ==
  [dtype |-> "int",
   data  |-> [r \in 1..4 |-> [c \in 1..4 |->
               QInt(<<(<<1, 1, 1, 1>>), (<<2, 2, 3, 3>>),
                      (<<4, 4, 5, 5>>), (<<6, 7, 8, 9>>)>>[r][c])]]]

InputGrids ==
  UNION {Grids(h, w) : h \in 1..MaxDim, w \in 1..MaxDim} \cup {DocExample}

ScaleNumbers == {PyInt(k) : k \in (-MaxScale)..MaxScale} \cup {PyFloat(3)}

Scales == {<<"pair", y, x>> : y \in ScaleNumbers, x \in ScaleNumbers}
          \cup {<<"scalar", s>> : s \in ScaleNumbers}

\* the state at the call scaleMatrix(mat, scale, strict)
Called(m, s, st) ==
  /\ mat = m /\ arg = m
  /\ scale = s
  /\ strict = st
  /\ yScale = Unbound /\ xScale = Unbound
  /\ yPad = -1 /\ xPad = -1
  /\ out = 0 /\ yo = 0 /\ xo = 0
  /\ pc = "unpack"
  /\ result = 0
  /\ error = "none"

Init ==
  /\ arith = "exact"
  /\ heap \in {<<g>> : g \in InputGrids}
  /\ given = heap[1]
  /\ calls = 1
  /\ \E s \in Scales, st \in BOOLEAN : Called(1, s, st)

Next ==
  \/ Unpack
  \/ CheckInts
  \/ NoOp
  \/ UpAlloc
  \/ UpAssign
  \/ DownNegate
  \/ DownStrict
  \/ DownPad
  \/ DownAlloc
  \/ DownAccum
  \/ DownDivide
  \/ DownCorrect
  \/ MixedRaise
  \/ Return

Spec == Init /\ [][Next]_vars

(***************************************************************************)
(* The call as the caller made it, and what the caller reads of its end.   *)
(***************************************************************************)
ArgY == scale[2]
ArgX == IF scale[1] = "pair" THEN scale[3] ELSE scale[2]
H == Rows(given)
W == Cols(given)
Returned == heap[result]

IntCall == IsInt(ArgY) /\ IsInt(ArgX)
NonIntCall == ~IntCall
NoOpCall == IntCall /\ ArgY.v = 0 /\ ArgX.v = 0
UpCall == IntCall /\ ArgY.v > 0 /\ ArgX.v > 0
DownCall == IntCall /\ ArgY.v < 0 /\ ArgX.v < 0
MixedCall == IntCall /\ ((ArgY.v > 0 /\ ArgX.v < 0) \/ (ArgY.v < 0 /\ ArgX.v > 0))
OneZeroCall == IntCall /\ ((ArgY.v = 0 /\ ArgX.v # 0) \/ (ArgY.v # 0 /\ ArgX.v = 0))

\* the magnitudes Y, X of a downscale
Y == -ArgY.v
X == -ArgX.v

ExactCall == DownCall /\ H % Y = 0 /\ W % X = 0
PaddedCall == DownCall /\ ~strict
StrictNonDivCall == DownCall /\ strict /\ ~(H % Y = 0 /\ W % X = 0)

\* no array was allocated, no local out bound, nothing returned
NothingComputed == Len(heap) = 1 /\ out = 0 /\ result = 0

RECURSIVE SumCells(_, _)
SumCells(g, cells) ==
  IF cells = {} THEN QInt(0)
  ELSE LET p == CHOOSE q \in cells : TRUE
       IN  QAdd(g.data[p[1]][p[2]], SumCells(g, cells \ {p}))

\* the cells of g that the ys-by-xs block of output cell (i, j) covers
RealCells(g, i, j, ys, xs) ==
  {rc \in (1..Rows(g)) \X (1..Cols(g)) :
     /\ (i - 1) * ys < rc[1] /\ rc[1] <= i * ys
     /\ (j - 1) * xs < rc[2] /\ rc[2] <= j * xs}

\* their mean, in exact arithmetic
MeanOfReal(g, i, j, ys, xs) ==
  QDiv(SumCells(g, RealCells(g, i, j, ys, xs)),
       QInt(Cardinality(RealCells(g, i, j, ys, xs))))

CeilDiv(n, d) == (n + d - 1) \div d

AfterPadding == pc \in {"down_alloc", "down_loop", "down_div", "down_fix", "return", "done"}

(***************************************************************************)
(* C2.  Upscale correctness: a call with positive scale (sy, sx), or a     *)
(* single positive int, never raises and returns a grid of shape           *)
(* (H*sy, W*sx) whose cell [r, c] is G[r div sy, c div sx], whatever       *)
(* strict is.                                                              *)
(***************************************************************************)
C2_UpscaleCorrect ==
  UpCall =>
    /\ pc # "raised"
    /\ pc = "done" =>
         /\ result # 0
         /\ Rows(Returned) = H * ArgY.v
         /\ Cols(Returned) = W * ArgX.v
         /\ \A r \in 0..(H * ArgY.v - 1), c \in 0..(W * ArgX.v - 1) :
              Returned.data[r + 1][c + 1] =
                given.data[(r \div ArgY.v) + 1][(c \div ArgX.v) + 1]

\* the docstring's first example (lines 73-76), scale 2
C2_Witness ==
  /\ UpCall /\ pc = "done" /\ scale = <<"scalar", PyInt(2)>>
  /\ given = Ramp(2, 2)
  /\ Returned.data = <<(<<QInt(1), QInt(1), QInt(2), QInt(2)>>),
                       (<<QInt(1), QInt(1), QInt(2), QInt(2)>>),
                       (<<QInt(3), QInt(3), QInt(4), QInt(4)>>),
                       (<<QInt(3), QInt(3), QInt(4), QInt(4)>>)>>

(***************************************************************************)
(* C3.  Exact-division downscale: with H divisible by Y and W by X, the    *)
(* call (-Y, -X) never raises, pads nothing, and returns a grid of shape   *)
(* (H/Y, W/X) whose cell [i, j] is the exact mean of its Y-by-X block of   *)
(* G; strict does not enter the result.                                    *)
(***************************************************************************)
C3_DownscaleExact ==
  ExactCall =>
    /\ pc # "raised"
    /\ AfterPadding => yPad = 0 /\ xPad = 0 /\ mat = arg
    /\ pc = "done" =>
         /\ result # 0
         /\ Rows(Returned) = H \div Y
         /\ Cols(Returned) = W \div X
         /\ \A i \in 1..(H \div Y), j \in 1..(W \div X) :
              /\ Cardinality(RealCells(given, i, j, Y, X)) = Y * X
              /\ Returned.data[i][j] = MeanOfReal(given, i, j, Y, X)

\* the docstring's second example (lines 79-82), scale -2
C3_Witness ==
  /\ ExactCall /\ pc = "done" /\ scale = <<"scalar", PyInt(-2)>>
  /\ given = DocExample
  /\ Returned.data = <<(<<(<<3, 2>>), QInt(2)>>), (<<(<<21, 4>>), (<<27, 4>>)>>)>>

(***************************************************************************)
(* C6.  No-op: a call with scale (0, 0), or the single int 0, raises       *)
(* nothing and returns a grid equal to G in shape and cells, whatever      *)
(* strict is.                                                              *)
(***************************************************************************)
C6_NoOp ==
  NoOpCall =>
    /\ pc \in {"unpack", "check", "branch", "done"}
    /\ error = "none"
    /\ pc = "done" => result # 0 /\ Returned = given

C6_Witness ==
  /\ NoOpCall /\ pc = "done" /\ scale[1] = "scalar" /\ strict
  /\ given = Ramp(2, 3)

(***************************************************************************)
(* C5.  Rejections: a scale component that is not an int raises the        *)
(* ValueError, whatever the signs; ints of opposite sign raise the         *)
(* same-direction GeoKitError; a strict downscale of a grid that Y or X    *)
(* does not divide raises the factor GeoKitError.  In each case the call   *)
(* goes nowhere else, and no array is allocated or returned.               *)
(***************************************************************************)
C5_Rejections ==
  /\ NonIntCall =>
       /\ pc \in {"unpack", "check", "raised"}
       /\ pc = "raised" => error = "ValueError: scale must be integer types"
       /\ NothingComputed
  /\ MixedCall =>
       /\ pc \in {"unpack", "check", "branch", "raised"}
       /\ pc = "raised" =>
            error = "GeoKitError: Dimensions must be scaled in the same direction"
       /\ NothingComputed
  /\ StrictNonDivCall =>
       /\ pc \in {"unpack", "check", "branch", "down_strict", "raised"}
       /\ pc = "raised" =>
            error = "GeoKitError: Matrix can only be scaled down by a factor of it's dimensions"
       /\ NothingComputed
  /\ (NonIntCall \/ MixedCall \/ StrictNonDivCall) /\ pc # "raised" => ENABLED Next

C5_Witness ==
  /\ StrictNonDivCall /\ pc = "raised"
  /\ H = 3 /\ W = 4 /\ Y = 2 /\ X = 2

(***************************************************************************)
(* C10.  One-zero scale: (0, k) and (k, 0) with an int k # 0 raise the     *)
(* same-direction GeoKitError that opposite signs raise; nothing is        *)
(* returned, and no axis is scaled.                                        *)
(***************************************************************************)
C10_OneZero ==
  OneZeroCall =>
    /\ pc \in {"unpack", "check", "branch", "raised"}
    /\ pc = "raised" =>
         error = "GeoKitError: Dimensions must be scaled in the same direction"
    /\ NothingComputed
    /\ pc # "raised" => ENABLED Next

C10_Witness ==
  /\ OneZeroCall /\ pc = "raised"
  /\ ArgY.v = 0 /\ ArgX.v = -2 /\ ~strict

(***************************************************************************)
(* C8.  Padded shape: a downscale (-Y, -X) with strict = False never       *)
(* raises; yPad = (Y - H mod Y) mod Y and xPad = (X - W mod X) mod X;      *)
(* the padded grid is G with zeros below and to the right only; the        *)
(* result has shape ((H+yPad)/Y, (W+xPad)/X) = (ceil(H/Y), ceil(W/X)).     *)
(***************************************************************************)
C8_PaddedShape ==
  PaddedCall =>
    /\ pc # "raised"
    /\ AfterPadding =>
         /\ yPad = (Y - (H % Y)) % Y
         /\ xPad = (X - (W % X)) % X
         /\ Rows(heap[mat]) = H + yPad
         /\ Cols(heap[mat]) = W + xPad
         /\ \A r \in 1..(H + yPad), c \in 1..(W + xPad) :
              heap[mat].data[r][c] =
                IF r <= H /\ c <= W THEN given.data[r][c] ELSE QInt(0)
    /\ pc = "done" =>
         /\ result # 0
         /\ Rows(Returned) = (H + yPad) \div Y
         /\ Cols(Returned) = (W + xPad) \div X
         /\ Rows(Returned) = CeilDiv(H, Y)
         /\ Cols(Returned) = CeilDiv(W, X)

C8_Witness ==
  /\ PaddedCall /\ pc = "done"
  /\ H = 1 /\ W = 4 /\ Y = 3 /\ X = 3
  /\ yPad = 2 /\ xPad = 2
  /\ Rows(Returned) = 1 /\ Cols(Returned) = 2

(***************************************************************************)
(* C9.  Symmetric padded downscale: for a square grid and Y = X, with      *)
(* strict = False, every cell of the result is the exact mean of the real  *)
(* (unpadded) cells of G that its block covers.                            *)
(***************************************************************************)
C9_SymmetricPadded ==
  (PaddedCall /\ H = W /\ Y = X /\ pc = "done") =>
    \A i \in 1..Rows(Returned), j \in 1..Cols(Returned) :
      Returned.data[i][j] = MeanOfReal(given, i, j, Y, X)

\* the docstring's third example (lines 85-95), scale -3, strict = False
C9_Witness ==
  /\ PaddedCall /\ pc = "done" /\ scale = <<"scalar", PyInt(-3)>>
  /\ yPad = 2 /\ xPad = 2
  /\ given = DocExample
  /\ Returned.data = <<(<<(<<23, 9>>), QInt(3)>>), (<<QInt(7), QInt(9)>>)>>

(***************************************************************************)
(* C1.  Padding correction: for a downscale with strict = False where Y    *)
(* does not divide H or X does not divide W, every cell in the last row    *)
(* or last column of the result is the exact mean of the real cells of G   *)
(* that its block covers.                                                  *)
(***************************************************************************)
C1_PaddingCorrection ==
  (PaddedCall /\ (H % Y # 0 \/ W % X # 0) /\ pc = "done") =>
    \A i \in 1..Rows(Returned), j \in 1..Cols(Returned) :
      (i = Rows(Returned) \/ j = Cols(Returned)) =>
        Returned.data[i][j] = MeanOfReal(given, i, j, Y, X)

(***************************************************************************)
(* C7.  Purity, as claimed: the caller's grid is never changed, and every  *)
(* call that returns returns an array that is not the caller's.            *)
(***************************************************************************)
C7_PureAndFresh ==
  /\ heap[arg] = given
  /\ pc = "done" => result # arg

(***************************************************************************)
(* C7, amended.  The caller's grid is never changed; an upscale or a       *)
(* downscale returns an array allocated by the call; the no-op returns     *)
(* the caller's own array.                                                 *)
(***************************************************************************)
C7_PureFreshUnlessNoOp ==
  /\ heap[arg] = given
  /\ pc = "done" =>
       IF NoOpCall THEN result = arg ELSE result > 1 /\ result <= Len(heap)

C7_Witness ==
  /\ PaddedCall /\ pc = "done"
  /\ H = 3 /\ W = 3 /\ Y = 2 /\ X = 2
  /\ mat # arg /\ result # mat

(***************************************************************************)
(* The round trip: the caller upscales G by a positive scale and passes    *)
(* the result to a second, strict call with the scale negated.  Float      *)
(* cells are binary64 here.  G is an int ramp, or a float array whose      *)
(* cell n (numbered row by row) holds the double k*n or the double nearest *)
(* to k*n/10, for k in 1..MaxVal.                                          *)
(***************************************************************************)
FloatArray(h, w, k, den) ==
  [dtype |-> "float",
   data  |-> [r \in 1..h |-> [c \in 1..w |->
               FDivInt(FFromInt(k * ((r - 1) * w + c)), den)]]]

RoundTripGrids ==
  UNION {{Ramp(h, w)} \cup {FloatArray(h, w, k, den) : k \in 1..MaxVal, den \in {1, 10}} :
         h \in 1..MaxDimRT, w \in 1..MaxDimRT}

UpScales == {<<"pair", PyInt(y), PyInt(x)>> : y \in 1..MaxScale, x \in 1..MaxScale}
            \cup {<<"scalar", PyInt(k)>> : k \in 1..MaxScale}

Negated(s) ==
  IF s[1] = "pair" THEN <<"pair", PyInt(-s[2].v), PyInt(-s[3].v)>>
  ELSE <<"scalar", PyInt(-s[2].v)>>

InitRT ==
  /\ arith = "binary64"
  /\ heap \in {<<g>> : g \in RoundTripGrids}
  /\ given = heap[1]
  /\ calls = 1
  /\ \E s \in UpScales, st \in BOOLEAN : Called(1, s, st)

\* the caller passes what the first call returned to the second call
RoundTripCall ==
  /\ pc = "done"
  /\ calls = 1
  /\ calls' = 2
  /\ mat' = result /\ arg' = result
  /\ scale' = Negated(scale)
  /\ strict' = TRUE
  /\ yScale' = Unbound /\ xScale' = Unbound
  /\ yPad' = -1 /\ xPad' = -1
  /\ out' = 0 /\ yo' = 0 /\ xo' = 0
  /\ pc' = "unpack"
  /\ result' = 0
  /\ error' = "none"
  /\ UNCHANGED <<arith, heap, given>>

NextRT ==
  \/ Unpack
  \/ CheckInts
  \/ UpAlloc
  \/ UpAssign
  \/ DownNegate
  \/ DownStrict
  \/ DownAlloc
  \/ DownAccum
  \/ DownDivide
  \/ DownCorrect
  \/ Return
  \/ RoundTripCall

SpecRT == InitRT /\ [][NextRT]_vars

SameShape == Rows(Returned) = H /\ Cols(Returned) = W

\* cell (r, c) of the result is the float value of cell (r, c) of G
SameCell(r, c) ==
  Returned.data[r][c] = AsFloat(arith, given.dtype, given.data[r][c])

\* G holds integers only (as ints, or as floats)
WholeCells ==
  \/ given.dtype = "int"
  \/ \A r \in 1..H, c \in 1..W :
       \E n \in 0..(MaxVal * H * W) : given.data[r][c] = FFromInt(n)

(***************************************************************************)
(* C4.  Round trip, as claimed: upscaling G by (sy, sx) and downscaling    *)
(* the result by (-sy, -sx) with strict = True never raises and returns a  *)
(* grid of G's shape with G's value in every cell.                         *)
(***************************************************************************)
C4_RoundTrip ==
  /\ pc # "raised"
  /\ (calls = 2 /\ pc = "done") =>
       /\ SameShape
       /\ \A r \in 1..H, c \in 1..W : SameCell(r, c)

(***************************************************************************)
(* C4, amended.  The round trip never raises and returns a grid of G's     *)
(* shape; when the cells of G hold integers, it has G's value in every     *)
(* cell.                                                                   *)
(***************************************************************************)
C4_RoundTripWhole ==
  /\ pc # "raised"
  /\ (calls = 2 /\ pc = "done") =>
       /\ SameShape
       /\ WholeCells => \A r \in 1..H, c \in 1..W : SameCell(r, c)

C4_Witness ==
  /\ calls = 2 /\ pc = "done" /\ WholeCells
  /\ given = FloatArray(2, 2, 1, 1)
  /\ scale = <<"pair", PyInt(-3), PyInt(-2)>>
  /\ Returned.data = given.data
====
